---- MODULE Spec2Model ----
(***************************************************************************)
(* Model of lib/dialects/mysql/query-generator.js: the MySQL statement     *)
(* compiler.  SQL text is a sequence of symbols (keywords, words, single   *)
(* characters such as the space and the backtick).  A statement is a      *)
(* sequence of pieces, each carrying its text and the function that        *)
(* produced it.                                                            *)
(***************************************************************************)
EXTENDS Integers, Sequences, FiniteSets, TLC

VARIABLES options, call, result

vars == <<options, call, result>>

(* ---------------------------------------------------------------------- *)
(* Bounds                                                                  *)
(* ---------------------------------------------------------------------- *)
(* bound on the number of words of a raw column definition *)
MaxWords == 4

(* ---------------------------------------------------------------------- *)
(* Text helpers                                                            *)
(* ---------------------------------------------------------------------- *)
RECURSIVE Join(_, _)
Join(seqs, sep) ==
  IF Len(seqs) = 0 THEN <<>>
  ELSE IF Len(seqs) = 1 THEN seqs[1]
  ELSE seqs[1] \o sep \o Join(Tail(seqs), sep)

Includes(s, sym) == \E i \in 1..Len(s) : s[i] = sym

IndexOf(s, sym) ==
  IF Includes(s, sym)
  THEN CHOOSE i \in 1..Len(s) : s[i] = sym /\ \A j \in 1..(i-1) : s[j] # sym
  ELSE 0

ReplaceFirst(s, sym) ==
  LET i == IndexOf(s, sym)
  IN IF i = 0 THEN s ELSE SubSeq(s, 1, i-1) \o SubSeq(s, i+1, Len(s))

Piece(via, text) == [via |-> via, text |-> text]
Tpl(sym) == Piece("template", <<sym>>)

RECURSIVE Flatten(_)
Flatten(pieces) ==
  IF Len(pieces) = 0 THEN <<>> ELSE pieces[1].text \o Flatten(Tail(pieces))

(* the identifier quote character of the dialect *)
BackTick == "BACKTICK"

(* JavaScript values: a tag and the text of the value *)
JsUndefined == [t |-> "undefined", v |-> <<>>]
JsNull == [t |-> "null", v |-> <<>>]
JsNum(n) == [t |-> "number", v |-> <<n>>]
JsStr(s) == [t |-> "string", v |-> s]
JsBool(b) == [t |-> "boolean", v |-> <<b>>]
JsFunction == [t |-> "function", v |-> <<"fn">>]
JsNow == [t |-> "NOW", v |-> <<"NOW">>]

Truthy(x) ==
  CASE x.t = "undefined" -> FALSE
    [] x.t = "null" -> FALSE
    [] x.t = "number" -> x.v # <<"0">>
    [] x.t = "string" -> x.v # <<>>
    [] x.t = "boolean" -> x.v = <<"true">>
    [] OTHER -> TRUE

(* ---------------------------------------------------------------------- *)
(* Identifier / value escaper                                              *)
(* ---------------------------------------------------------------------- *)
addTicks(s, tick) == <<tick>> \o s \o <<tick>>

quoteIdentifier(identifier) ==
  IF identifier = <<"*">> THEN identifier ELSE addTicks(identifier, BackTick)

wrapSingleQuote(identifier) == addTicks(identifier, "'")

(* a table is a bare string (schema = <<>>) or a {schema, tableName} pair *)
StrTable(name) == [isString |-> TRUE, schema |-> <<>>, tableName |-> name]
ObjTable(schema, name) == [isString |-> FALSE, schema |-> schema, tableName |-> name]

quoteTable(table) ==
  IF table.isString \/ table.schema = <<>>
  THEN quoteIdentifier(table.tableName)
  ELSE quoteIdentifier(table.schema) \o <<".">> \o quoteIdentifier(table.tableName)

quoteIdentifiers(table) == quoteTable(table)

(* String(table) as used by string concatenation *)
ToStr(table) == IF table.isString THEN table.tableName ELSE <<"[object Object]">>

RECURSIVE EscapeChars(_)
EscapeChars(s) ==
  IF Len(s) = 0 THEN <<>>
  ELSE (IF s[1] = "'" THEN <<"\\'">> ELSE <<s[1]>>) \o EscapeChars(Tail(s))

escape(x) ==
  CASE x.t = "number" -> x.v
    [] x.t = "boolean" -> x.v
    [] x.t = "string" -> <<"'">> \o EscapeChars(x.v) \o <<"'">>
    [] OTHER -> <<"NULL">>

Q(name) == Piece("quoteIdentifier", quoteIdentifier(name))
QT(table) == Piece("quoteTable", quoteTable(table))
Esc(x) == Piece("escape", escape(x))
Raw(text) == Piece("raw", text)
Def(text) == Piece("definition", text)

(* ---------------------------------------------------------------------- *)
(* Inputs of the DDL assemblers                                            *)
(* ---------------------------------------------------------------------- *)
Words == {"INTEGER", "PRIMARY KEY", "REFERENCES"}

(* a definition starts with its type; up to MaxWords words in all *)
WordSeqs == {<<"INTEGER">> \o ws : ws \in UNION {[1..n -> Words] : n \in 0..(MaxWords - 1)}}

RECURSIVE Spaced(_)
Spaced(ws) ==
  IF Len(ws) = 0 THEN <<>>
  ELSE IF Len(ws) = 1 THEN <<ws[1]>>
  ELSE <<ws[1], " ">> \o Spaced(Tail(ws))

(* raw column definitions: words separated by single spaces *)
DataTypes == {Spaced(ws) : ws \in WordSeqs}

Idents == {<<"id">>, <<"a", BackTick, "b">>}
Tables == {StrTable(<<"t">>), ObjTable(<<"s">>, <<"t">>), StrTable(<<"t", BackTick, "x">>)}

Attr(name, dataType) == [name |-> name, dataType |-> dataType]

(* attribute maps: one column, or two columns with distinct names *)
AttrMaps ==
  {<<Attr(<<"id">>, d)>> : d \in DataTypes} \cup
  {<<Attr(<<"id">>, d[1]), Attr(<<"a", BackTick, "b">>, d[2])>> : d \in DataTypes \X DataTypes}

UniqueKey(isString, name, fields, singleField) ==
  [isString |-> isString, name |-> name, fields |-> fields, singleField |-> singleField]

CreateOptions(engine, comment, charset, collate, initialAutoIncrement, uniqueKeys) ==
  [engine |-> engine, comment |-> comment, charset |-> charset, collate |-> collate,
   initialAutoIncrement |-> initialAutoIncrement, uniqueKeys |-> uniqueKeys]

DefaultEngine == <<"InnoDB">>

CreateOptionsSet ==
  {CreateOptions(DefaultEngine, JsUndefined, <<>>, <<>>, <<>>, <<>>),
   CreateOptions(<<"MyISAM">>, JsStr(<<"it", "'", "s">>), <<"utf8">>, <<>>, <<>>, <<>>),
   CreateOptions(DefaultEngine, JsNum("5"), <<>>, <<"utf8_bin">>, <<"100">>,
     <<UniqueKey(TRUE, <<"uk">>, <<(<<"id">>), (<<"x">>)>>, FALSE)>>),
   CreateOptions(DefaultEngine, JsUndefined, <<>>, <<>>, <<>>,
     <<UniqueKey(FALSE, <<"0">>, <<(<<"id">>), (<<"x">>)>>, FALSE),
       UniqueKey(TRUE, <<"one">>, <<(<<"id">>)>>, TRUE)>>)}

(* ---------------------------------------------------------------------- *)
(* createTableQuery                                                        *)
(* ---------------------------------------------------------------------- *)
(* The regular expression match of a definition against "anything, one   *)
(* space, REFERENCES and the rest": index of the REFERENCES that starts    *)
(* group 2, 0 when the match is null.  Group 1 is greedy and not empty.    *)
RefMatch(dataType) ==
  LET cand == {i \in 3..Len(dataType) : dataType[i] = "REFERENCES" /\ dataType[i-1] = " "}
  IN IF cand = {} THEN 0 ELSE CHOOSE i \in cand : \A j \in cand : j <= i

MatchGroup1(dataType) == SubSeq(dataType, 1, RefMatch(dataType) - 2)
MatchGroup2(dataType) == SubSeq(dataType, RefMatch(dataType), Len(dataType))

(* match[1] on a null match *)
ColumnThrows(dataType) == Includes(dataType, "REFERENCES") /\ RefMatch(dataType) = 0

(* the entry pushed on attrStr for one column *)
ColumnAttrStr(attr) ==
  LET dataType == attr.dataType
  IN IF Includes(dataType, "PRIMARY KEY")
     THEN IF Includes(dataType, "REFERENCES")
          THEN <<Q(attr.name), Tpl(" "), Def(ReplaceFirst(MatchGroup1(dataType), "PRIMARY KEY"))>>
          ELSE <<Q(attr.name), Tpl(" "), Def(ReplaceFirst(dataType, "PRIMARY KEY"))>>
     ELSE IF Includes(dataType, "REFERENCES")
          THEN <<Q(attr.name), Tpl(" "), Def(MatchGroup1(dataType))>>
          ELSE <<Q(attr.name), Tpl(" "), Def(dataType)>>

IsPrimaryKey(attr) == Includes(attr.dataType, "PRIMARY KEY")
IsForeignKey(attr) == Includes(attr.dataType, "REFERENCES")

UniqueKeyClause(tableName, uk) ==
  IF uk.singleField THEN <<>>
  ELSE LET indexName == IF uk.isString THEN uk.name
                        ELSE <<"uniq_">> \o ToStr(tableName) \o <<"_">> \o Join(uk.fields, <<"_">>)
       IN <<Tpl(", UNIQUE "), Q(indexName), Tpl(" (")>>
          \o Join([i \in 1..Len(uk.fields) |-> <<Q(uk.fields[i])>>], <<Tpl(", ")>>)
          \o <<Tpl(")")>>

(* The statement starts with a keyword and ends with an option value, so  *)
(* the trim of the rendered template removes nothing.                      *)
createTableQuery(tableName, attributes, opts) ==
  IF \E i \in 1..Len(attributes) : ColumnThrows(attributes[i].dataType)
  THEN [status |-> "TypeError", pieces |-> <<>>]
  ELSE
    LET attrStr == [i \in 1..Len(attributes) |-> ColumnAttrStr(attributes[i])]
        primaryKeys == SelectSeq(attributes, IsPrimaryKey)
        foreignKeys == SelectSeq(attributes, IsForeignKey)
        pkString == Join([i \in 1..Len(primaryKeys) |-> <<Q(primaryKeys[i].name)>>], <<Tpl(", ")>>)
        uniques == Join([i \in 1..Len(opts.uniqueKeys) |-> UniqueKeyClause(tableName, opts.uniqueKeys[i])], <<>>)
        pkClause == IF Len(pkString) > 0
                    THEN <<Tpl(", PRIMARY KEY (")>> \o pkString \o <<Tpl(")")>>
                    ELSE <<>>
        fkClauses == Join([i \in 1..Len(foreignKeys) |->
                            <<Tpl(", FOREIGN KEY ("), Q(foreignKeys[i].name), Tpl(") "),
                              Def(MatchGroup2(foreignKeys[i].dataType))>>], <<>>)
        comment == IF Truthy(opts.comment) /\ opts.comment.t = "string"
                   THEN <<Tpl(" COMMENT "), Esc(opts.comment)>> ELSE <<>>
        charset == IF opts.charset # <<>>
                   THEN <<Tpl(" DEFAULT CHARSET="), Piece("option", opts.charset)>> ELSE <<>>
        collation == IF opts.collate # <<>>
                     THEN <<Tpl(" COLLATE "), Piece("option", opts.collate)>> ELSE <<>>
        initialAutoIncrement ==
                   IF opts.initialAutoIncrement # <<>>
                   THEN <<Tpl(" AUTO_INCREMENT="), Piece("option", opts.initialAutoIncrement)>>
                   ELSE <<>>
    IN [status |-> "ok",
        pieces |-> <<Tpl("CREATE TABLE IF NOT EXISTS "), QT(tableName), Tpl(" (")>>
                   \o Join(attrStr, <<Tpl(", ")>>) \o uniques \o pkClause \o fkClauses
                   \o <<Tpl(") ENGINE="), Piece("option", opts.engine)>>
                   \o comment \o charset \o collation \o initialAutoIncrement
                   \o <<Tpl(";")>>]

CreateTableQuery ==
  /\ call.op = "idle"
  /\ \E t \in Tables, attributes \in AttrMaps, o \in CreateOptionsSet :
    /\ call' = [op |-> "createTableQuery", table |-> t, attributes |-> attributes, opts |-> o]
    /\ result' = createTableQuery(t, attributes, o)
    /\ UNCHANGED options

(* ---------------------------------------------------------------------- *)
(* removeColumnQuery, changeColumnQuery, renameColumnQuery                 *)
(* ---------------------------------------------------------------------- *)
removeColumnQuery(tableName, attributeName) ==
  [status |-> "ok",
   pieces |-> <<Tpl("ALTER TABLE "), QT(tableName), Tpl(" DROP "), Q(attributeName), Tpl(";")>>]

(* definition.replace of the shortest non-empty text that is followed by   *)
(* REFERENCES, searched from the start of the definition                   *)
StripBeforeReferences(definition) ==
  LET cand == {j \in 2..Len(definition) : definition[j] = "REFERENCES"}
  IN IF cand = {} THEN definition
     ELSE SubSeq(definition, CHOOSE j \in cand : \A k \in cand : j <= k, Len(definition))

IsConstraint(attr) == Includes(attr.dataType, "REFERENCES")
IsChange(attr) == ~Includes(attr.dataType, "REFERENCES")

ConstraintString(attr) ==
  <<Q(attr.name \o <<"_foreign_idx">>), Tpl(" FOREIGN KEY ("), Q(attr.name), Tpl(") "),
    Def(StripBeforeReferences(attr.dataType))>>

ChangeAttrString(attr) ==
  <<Tpl(BackTick), Raw(attr.name), Tpl(BackTick), Tpl(" "),
    Tpl(BackTick), Raw(attr.name), Tpl(BackTick), Tpl(" "), Def(attr.dataType)>>

changeColumnQuery(tableName, attributes) ==
  LET constraints == SelectSeq(attributes, IsConstraint)
      changes == SelectSeq(attributes, IsChange)
      attrString == [i \in 1..Len(changes) |-> ChangeAttrString(changes[i])]
      constraintString == [i \in 1..Len(constraints) |-> ConstraintString(constraints[i])]
      changePart == IF Len(attrString) > 0
                    THEN <<Tpl("CHANGE ")>> \o Join(attrString, <<Tpl(", ")>>)
                         \o (IF Len(constraintString) > 0 THEN <<Tpl(" ")>> ELSE <<>>)
                    ELSE <<>>
      constraintPart == IF Len(constraintString) > 0
                        THEN <<Tpl("ADD CONSTRAINT ")>> \o Join(constraintString, <<Tpl(", ")>>)
                        ELSE <<>>
  IN [status |-> "ok",
      pieces |-> <<Tpl("ALTER TABLE "), QT(tableName), Tpl(" ")>>
                 \o changePart \o constraintPart \o <<Tpl(";")>>]

RenameAttrString(attrBefore, attr) ==
  <<Tpl(BackTick), Raw(attrBefore), Tpl(BackTick), Tpl(" "),
    Tpl(BackTick), Raw(attr.name), Tpl(BackTick), Tpl(" "), Def(attr.dataType)>>

renameColumnQuery(tableName, attrBefore, attributes) ==
  LET attrString == [i \in 1..Len(attributes) |-> RenameAttrString(attrBefore, attributes[i])]
  IN [status |-> "ok",
      pieces |-> <<Tpl("ALTER TABLE "), QT(tableName), Tpl(" CHANGE ")>>
                 \o Join(attrString, <<Tpl(", ")>>) \o <<Tpl(";")>>]

(* ---------------------------------------------------------------------- *)
(* showIndexesQuery, removeIndexQuery, foreign-key queries                 *)
(* ---------------------------------------------------------------------- *)
Databases == {<<>>, <<"db">>, <<"d", BackTick, "b">>}

showIndexesQuery(tableName, database) ==
  [status |-> "ok",
   pieces |-> <<Tpl("SHOW INDEX FROM "), QT(tableName)>>
              \o (IF database # <<>>
                  THEN <<Tpl(" FROM "), Tpl(BackTick), Raw(database), Tpl(BackTick)>>
                  ELSE <<>>)]

(* Utils.inflection.underscore on the words the model uses *)
underscore(text) ==
  [i \in 1..Len(text) |-> IF text[i] = "userId" THEN "user_id" ELSE text[i]]

(* an index is named by a string or by the list of its columns *)
IndexName(name) == [isString |-> TRUE, name |-> name, columns |-> <<>>]
IndexColumns(columns) == [isString |-> FALSE, name |-> <<>>, columns |-> columns]

IndexArgs ==
  {IndexName(<<"idx">>), IndexName(<<"i", BackTick, "x">>),
   IndexColumns(<<(<<"userId">>), (<<"a", BackTick, "b">>)>>)}

removeIndexQuery(tableName, indexNameOrAttributes) ==
  LET indexName == IF indexNameOrAttributes.isString
                   THEN indexNameOrAttributes.name
                   ELSE underscore(ToStr(tableName) \o <<"_">>
                                   \o Join(indexNameOrAttributes.columns, <<"_">>))
  IN [status |-> "ok",
      pieces |-> <<Tpl("DROP INDEX "), Raw(indexName), Tpl(" ON "),
                   Piece("quoteIdentifiers", quoteIdentifiers(tableName))>>]

getForeignKeysQuery(tableName, schemaName) ==
  [status |-> "ok",
   pieces |-> <<Tpl("SELECT CONSTRAINT_NAME as constraint_name FROM INFORMATION_SCHEMA.KEY_COLUMN_USAGE where TABLE_NAME = '"),
                Raw(tableName),
                Tpl("' AND CONSTRAINT_NAME!='PRIMARY' AND CONSTRAINT_SCHEMA='"),
                Raw(schemaName),
                Tpl("' AND REFERENCED_TABLE_NAME IS NOT NULL;")>>]

getForeignKeyQuery(table, columnName) ==
  LET name == IF table.isString THEN table.tableName
              ELSE IF table.tableName # <<>> THEN table.tableName ELSE ToStr(table)
      tableName == IF ~table.isString /\ table.schema # <<>>
                   THEN table.schema \o <<".">> \o name ELSE name
      W(x) == Piece("wrapSingleQuote", wrapSingleQuote(x))
  IN [status |-> "ok",
      pieces |-> <<Tpl("SELECT CONSTRAINT_NAME as constraint_name"), Tpl(" "),
                   Tpl("FROM INFORMATION_SCHEMA.KEY_COLUMN_USAGE"), Tpl(" "),
                   Tpl("WHERE (REFERENCED_TABLE_NAME = "), W(tableName), Tpl(" "),
                   Tpl("AND REFERENCED_COLUMN_NAME = "), W(columnName), Tpl(" "),
                   Tpl(") OR (TABLE_NAME = "), W(tableName), Tpl(" "),
                   Tpl("AND COLUMN_NAME = "), W(columnName), Tpl(" "),
                   Tpl(")")>>]

dropForeignKeyQuery(tableName, foreignKey) ==
  [status |-> "ok",
   pieces |-> <<Tpl("ALTER TABLE "), QT(tableName), Tpl(" DROP FOREIGN KEY "),
                Q(foreignKey), Tpl(";")>>]

RemoveColumnQuery ==
  /\ call.op = "idle"
  /\ \E t \in Tables, a \in Idents :
       /\ call' = [op |-> "removeColumnQuery", table |-> t, name |-> a]
       /\ result' = removeColumnQuery(t, a)
       /\ UNCHANGED options

ChangeColumnQuery ==
  /\ call.op = "idle"
  /\ \E t \in Tables, attributes \in AttrMaps :
       /\ call' = [op |-> "changeColumnQuery", table |-> t, attributes |-> attributes]
       /\ result' = changeColumnQuery(t, attributes)
       /\ UNCHANGED options

RenameColumnQuery ==
  /\ call.op = "idle"
  /\ \E t \in Tables, before \in Idents, attributes \in AttrMaps :
       /\ call' = [op |-> "renameColumnQuery", table |-> t, name |-> before,
                   attributes |-> attributes]
       /\ result' = renameColumnQuery(t, before, attributes)
       /\ UNCHANGED options

ShowIndexesQuery ==
  /\ call.op = "idle"
  /\ \E t \in Tables, db \in Databases :
       /\ call' = [op |-> "showIndexesQuery", table |-> t, database |-> db]
       /\ result' = showIndexesQuery(t, db)
       /\ UNCHANGED options

RemoveIndexQuery ==
  /\ call.op = "idle"
  /\ \E t \in Tables, ix \in IndexArgs :
       /\ call' = [op |-> "removeIndexQuery", table |-> t, index |-> ix]
       /\ result' = removeIndexQuery(t, ix)
       /\ UNCHANGED options

GetForeignKeysQuery ==
  /\ call.op = "idle"
  /\ \E t \in Idents, sch \in Idents \cup {<<"a", "'", "b">>} :
       /\ call' = [op |-> "getForeignKeysQuery", name |-> t, schema |-> sch]
       /\ result' = getForeignKeysQuery(t, sch)
       /\ UNCHANGED options

GetForeignKeyQuery ==
  /\ call.op = "idle"
  /\ \E t \in Tables, c \in Idents :
       /\ call' = [op |-> "getForeignKeyQuery", table |-> t, name |-> c]
       /\ result' = getForeignKeyQuery(t, c)
       /\ UNCHANGED options

DropForeignKeyQuery ==
  /\ call.op = "idle"
  /\ \E t \in Tables, fk \in Idents :
       /\ call' = [op |-> "dropForeignKeyQuery", table |-> t, name |-> fk]
       /\ result' = dropForeignKeyQuery(t, fk)
       /\ UNCHANGED options

(* ---------------------------------------------------------------------- *)
(* attributeToSQL, addColumnQuery                                          *)
(* ---------------------------------------------------------------------- *)
(* a column type: a raw SQL type string, or a type object that renders     *)
(* itself and carries the _binary flag                                     *)
RawType(sql) == [raw |-> TRUE, sql |-> sql, binary |-> JsUndefined]
TypeObject(sql, binary) == [raw |-> FALSE, sql |-> sql, binary |-> binary]

Types ==
  {RawType(<<"TEXT">>), RawType(<<"BLOB">>), RawType(<<"INTEGER">>),
   TypeObject(<<"VARCHAR(255)">>, JsUndefined),
   TypeObject(<<"VARCHAR(255)", " ", "BINARY">>, JsBool("true")),
   TypeObject(<<"BLOB">>, JsBool("true"))}

(* attribute.type.toString({escape}) *)
TypeToString(type) == type.sql

(* Utils.defaultValueSchemable *)
defaultValueSchemable(value) ==
  /\ value.t # "undefined"
  /\ value.t # "NOW"
  /\ value.t # "function"

DefaultValues == {JsUndefined, JsNull, JsStr(<<"x">>), JsFunction, JsNow}

NoReferences == [set |-> FALSE, model |-> StrTable(<<>>), key |-> <<>>]
References(model, key) == [set |-> TRUE, model |-> model, key |-> key]

ReferencesSet ==
  {NoReferences, References(StrTable(<<"other">>), <<>>),
   References(ObjTable(<<"s">>, <<"other">>), <<"k">>)}

toUpperCase(text) ==
  [i \in 1..Len(text) |->
     CASE text[i] = "cascade" -> "CASCADE"
       [] text[i] = "set null" -> "SET NULL"
       [] OTHER -> text[i]]

(* onDelete / onUpdate pairs *)
Actions == {<<(<<>>), (<<>>)>>, <<(<<"cascade">>), (<<>>)>>, <<(<<>>), (<<"set null">>)>>}

Attributes ==
  {[isPlainObject |-> TRUE, type |-> ty, allowNull |-> an, autoIncrement |-> ai,
    defaultValue |-> dv, unique |-> un, primaryKey |-> pk, after |-> af,
    references |-> rf, onDelete |-> act[1], onUpdate |-> act[2]] :
     ty \in Types, an \in {JsUndefined, JsBool("false")}, ai \in BOOLEAN,
     dv \in DefaultValues, un \in {JsUndefined, JsBool("true"), JsStr(<<"uk">>)},
     pk \in BOOLEAN, af \in {<<>>, <<"id">>}, rf \in ReferencesSet, act \in Actions}

(* a bare type in place of a descriptor is promoted to {type: attribute} *)
Promote(type) ==
  [isPlainObject |-> FALSE, type |-> type, allowNull |-> JsUndefined, autoIncrement |-> FALSE,
   defaultValue |-> JsUndefined, unique |-> JsUndefined, primaryKey |-> FALSE, after |-> <<>>,
   references |-> NoReferences, onDelete |-> <<>>, onUpdate |-> <<>>]

NoContext == [context |-> <<>>, foreignKey |-> <<>>]
AddColumnContext(key) == [context |-> <<"addColumn">>, foreignKey |-> key]

(* a bug: UNIQUE is left out of a primary key column *)
UniqueClauseExclusive(attribute) ==
  IF attribute.unique = JsBool("true") /\ ~attribute.primaryKey THEN <<Tpl(" UNIQUE")>> ELSE <<>>

UniqueClause(attribute) ==
  IF attribute.unique = JsBool("true") THEN <<Tpl(" UNIQUE")>> ELSE <<>>

attributeToSQL(attribute, opts) ==
  LET type == TypeToString(attribute.type)
      notNull == IF attribute.allowNull = JsBool("false") THEN <<Tpl(" NOT NULL")>> ELSE <<>>
      autoIncrement == IF attribute.autoIncrement THEN <<Tpl(" auto_increment")>> ELSE <<>>
      default == IF /\ ~(attribute.type.raw /\ attribute.type.sql = <<"TEXT">>)
                    /\ attribute.type.binary # JsBool("true")
                    /\ defaultValueSchemable(attribute.defaultValue)
                 THEN <<Tpl(" DEFAULT "), Esc(attribute.defaultValue)>>
                 ELSE <<>>
      unique == UniqueClause(attribute)
      primaryKey == IF attribute.primaryKey THEN <<Tpl(" PRIMARY KEY")>> ELSE <<>>
      after == IF attribute.after # <<>> THEN <<Tpl(" AFTER "), Q(attribute.after)>> ELSE <<>>
      constraint == IF opts.context = <<"addColumn">> /\ opts.foreignKey # <<>>
                    THEN <<Tpl(", ADD CONSTRAINT "), Q(opts.foreignKey \o <<"_foreign_idx">>),
                           Tpl(" FOREIGN KEY ("), Q(opts.foreignKey), Tpl(")")>>
                    ELSE <<>>
      references ==
        IF attribute.references.set
        THEN constraint
             \o <<Tpl(" REFERENCES "), QT(attribute.references.model), Tpl(" (")>>
             \o (IF attribute.references.key # <<>>
                 THEN <<Q(attribute.references.key)>> ELSE <<Q(<<"id">>)>>)
             \o <<Tpl(")")>>
             \o (IF attribute.onDelete # <<>>
                 THEN <<Tpl(" ON DELETE "), Piece("option", toUpperCase(attribute.onDelete))>>
                 ELSE <<>>)
             \o (IF attribute.onUpdate # <<>>
                 THEN <<Tpl(" ON UPDATE "), Piece("option", toUpperCase(attribute.onUpdate))>>
                 ELSE <<>>)
        ELSE <<>>
  IN <<Piece("type", type)>> \o notNull \o autoIncrement \o default \o unique
     \o primaryKey \o after \o references

addColumnQuery(table, key, dataType) ==
  [status |-> "ok",
   pieces |-> <<Tpl("ALTER TABLE "), QT(table), Tpl(" ADD "), Q(key), Tpl(" ")>>
              \o attributeToSQL(dataType, AddColumnContext(key)) \o <<Tpl(";")>>]

AttributeToSQL ==
  /\ call.op = "idle"
  /\ \E attribute \in Attributes \cup {Promote(ty) : ty \in Types},
        o \in {NoContext, AddColumnContext(<<"fk">>)} :
       /\ call' = [op |-> "attributeToSQL", attribute |-> attribute, opts |-> o]
       /\ result' = [status |-> "ok", pieces |-> attributeToSQL(attribute, o)]
       /\ UNCHANGED options

AddColumnQuery ==
  /\ call.op = "idle"
  /\ \E t \in Tables, key \in Idents, attribute \in Attributes \cup {Promote(ty) : ty \in Types} :
       /\ call' = [op |-> "addColumnQuery", table |-> t, name |-> key, attribute |-> attribute]
       /\ result' = addColumnQuery(t, key, attribute)
       /\ UNCHANGED options

(* the caller takes the returned statement; the next call can start *)
Idle == [op |-> "idle"]
NoResult == [status |-> "none", pieces |-> <<>>]

Return ==
  /\ call.op # "idle"
  /\ call' = Idle
  /\ result' = NoResult
  /\ UNCHANGED options

InitDDL ==
  /\ options = [limit |-> JsUndefined, truncate |-> JsUndefined, onDuplicate |-> JsUndefined]
  /\ call = Idle
  /\ result = NoResult

NextDDL ==
  \/ CreateTableQuery
  \/ RemoveColumnQuery
  \/ ChangeColumnQuery
  \/ RenameColumnQuery
  \/ ShowIndexesQuery
  \/ RemoveIndexQuery
  \/ GetForeignKeysQuery
  \/ GetForeignKeyQuery
  \/ DropForeignKeyQuery
  \/ Return

SpecDDL == InitDDL /\ [][NextDDL]_vars

NextAttr ==
  \/ AttributeToSQL
  \/ AddColumnQuery
  \/ Return

SpecAttr == InitDDL /\ [][NextAttr]_vars

(* ---------------------------------------------------------------------- *)
(* deleteQuery, upsertQuery: the callers' options object is shared state   *)
(* ---------------------------------------------------------------------- *)
Options(limit, truncate, onDuplicate) ==
  [limit |-> limit, truncate |-> truncate, onDuplicate |-> onDuplicate]

(* the object literal {} *)
EmptyOptions == Options(JsUndefined, JsUndefined, JsUndefined)

Limits == {JsUndefined, JsNull, JsNum("0"), JsStr(<<"5">>)}
Truncates == {JsUndefined, JsBool("true"), JsNum("1")}
DmlTables == {StrTable(<<"t">>), ObjTable(<<"s">>, <<"t">>)}

OptionsSet == {Options(l, tr, JsUndefined) : l \in Limits, tr \in Truncates}

(* where conditions and their compilation by getWhereConditions *)
Wheres == {"null", "empty", "cond"}

getWhereConditions(where) ==
  IF where = "cond" THEN <<BackTick, "id", BackTick, " = ", "1">> ELSE <<>>

(* a bug: an unset limit is left unset *)
LimitDefaultMissing(opts) == opts

(* options.limit = 1 when options.limit is undefined *)
LimitDefault(opts) ==
  IF opts.limit.t = "undefined" THEN [opts EXCEPT !.limit = JsNum("1")] ELSE opts

(* a bug: the truncate test comes after the condition and the limit *)
deleteQueryLateTruncate(tableName, where, opts) ==
  LET table == QT(tableName)
      cond == getWhereConditions(where)
      opts2 == LimitDefault(opts)
      limit == IF Truthy(opts2.limit)
               THEN <<Tpl(" LIMIT "), Esc(opts2.limit)>> ELSE <<>>
  IN IF opts.truncate = JsBool("true")
     THEN [status |-> "ok", pieces |-> <<Tpl("TRUNCATE "), table>>,
           whereCompiled |-> TRUE, options |-> opts2]
     ELSE [status |-> "ok",
           pieces |-> <<Tpl("DELETE FROM "), table>>
                      \o (IF cond # <<>> THEN <<Tpl(" WHERE "), Piece("where", cond)>> ELSE <<>>)
                      \o limit,
           whereCompiled |-> TRUE, options |-> opts2]

deleteQuery(tableName, where, opts) ==
  LET table == QT(tableName)
  IN IF opts.truncate = JsBool("true")
     THEN [status |-> "ok", pieces |-> <<Tpl("TRUNCATE "), table>>,
           whereCompiled |-> FALSE, options |-> opts]
     ELSE
       LET cond == getWhereConditions(where)
           opts2 == LimitDefault(opts)
           limit == IF Truthy(opts2.limit)
                    THEN <<Tpl(" LIMIT "), Esc(opts2.limit)>> ELSE <<>>
       IN [status |-> "ok",
           pieces |-> <<Tpl("DELETE FROM "), table>>
                      \o (IF cond # <<>> THEN <<Tpl(" WHERE "), Piece("where", cond)>> ELSE <<>>)
                      \o limit,
           whereCompiled |-> TRUE, options |-> opts2]

(* bound on the number of keys of updateValues *)
MaxKeys == 2

UpdateKeys == {<<"a">>, <<"b">>, <<"c", BackTick>>}

Distinct(seq) == \A i, j \in 1..Len(seq) : i # j => seq[i] # seq[j]

KeyLists == {ks \in UNION {[1..n -> UpdateKeys] : n \in 0..MaxKeys} : Distinct(ks)}

(* the insert assembler of the abstract generator, as far as onDuplicate   *)
(* is concerned                                                            *)
insertQuery(tableName, insertValues, rawAttributes, opts) ==
  <<Tpl("INSERT INTO "), QT(tableName), Tpl(" ("),
    Piece("insert", Join([i \in 1..Len(insertValues) |-> quoteIdentifier(insertValues[i])], <<",">>)),
    Tpl(") VALUES (...)")>>
  \o (IF Truthy(opts.onDuplicate)
      THEN <<Tpl(" ON DUPLICATE KEY "), Piece("onDuplicate", opts.onDuplicate.v)>>
      ELSE <<>>)
  \o <<Tpl(";")>>

OnDuplicateClause(key) == quoteIdentifier(key) \o <<"=VALUES(">> \o quoteIdentifier(key) \o <<")">>

(* a bug: the clauses are appended to the onDuplicate text already there *)
upsertQueryAppending(tableName, insertValues, updateValues, where, rawAttributes, opts) ==
  LET onDuplicate == (IF opts.onDuplicate.t = "string" THEN opts.onDuplicate.v ELSE <<"UPDATE ">>)
        \o Join([i \in 1..Len(updateValues) |-> OnDuplicateClause(updateValues[i])], <<", ">>)
      opts2 == [opts EXCEPT !.onDuplicate = JsStr(onDuplicate)]
  IN [status |-> "ok",
      pieces |-> insertQuery(tableName, insertValues, rawAttributes, opts2),
      forwarded |-> opts2, options |-> opts2]

upsertQuery(tableName, insertValues, updateValues, where, rawAttributes, opts) ==
  LET onDuplicate == <<"UPDATE ">>
        \o Join([i \in 1..Len(updateValues) |-> OnDuplicateClause(updateValues[i])], <<", ">>)
      opts2 == [opts EXCEPT !.onDuplicate = JsStr(onDuplicate)]
  IN [status |-> "ok",
      pieces |-> insertQuery(tableName, insertValues, rawAttributes, opts2),
      forwarded |-> opts2, options |-> opts2]

(* the call repeats the previous call on the same options object *)
Again(t, w, passed) ==
  /\ call.op = "deleteQuery"
  /\ call.passed /\ passed
  /\ call.table = t /\ call.where = w

DeleteQuery ==
  \E t \in DmlTables, w \in Wheres, passed \in BOOLEAN :
    LET r == deleteQuery(t, w, IF passed THEN options ELSE EmptyOptions)
    IN /\ call' = [op |-> "deleteQuery", table |-> t, where |-> w, passed |-> passed,
                   before |-> IF passed THEN options ELSE EmptyOptions,
                   again |-> Again(t, w, passed),
                   prev |-> IF Again(t, w, passed) THEN result.pieces ELSE <<>>]
       /\ result' = [status |-> r.status, pieces |-> r.pieces, whereCompiled |-> r.whereCompiled]
       /\ options' = IF passed THEN r.options ELSE options

UpsertQuery ==
  \E t \in DmlTables, ins \in {<<(<<"a">>)>>}, upd \in KeyLists :
    LET r == upsertQuery(t, ins, upd, "null", <<>>, options)
    IN /\ call' = [op |-> "upsertQuery", table |-> t, insertValues |-> ins,
                   updateValues |-> upd, before |-> options]
       /\ result' = [status |-> r.status, pieces |-> r.pieces, forwarded |-> r.forwarded]
       /\ options' = r.options

(* the caller builds a fresh options object *)
NewOptions ==
  \E o \in OptionsSet :
    /\ options' = o
    /\ call' = [op |-> "newOptions"]
    /\ result' = NoResult

InitDML ==
  /\ options \in OptionsSet
  /\ call = Idle
  /\ result = NoResult

NextDML ==
  \/ DeleteQuery
  \/ UpsertQuery
  \/ NewOptions

SpecDML == InitDML /\ [][NextDML]_vars

(* ---------------------------------------------------------------------- *)
(* whereItemQuery                                                          *)
(* ---------------------------------------------------------------------- *)
(* bound on the number of keys of a condition value, over all its levels   *)
MaxNodes == 3

(* a condition value: a scalar, or an object as the ordered list of its    *)
(* own keys with their values                                              *)
Scalar(x) == [t |-> "scalar", s |-> x, kv |-> <<>>]
Object(kv) == [t |-> "object", s |-> "", kv |-> kv]
Entry(k, v) == [k |-> k, v |-> v]

Scalars == {Scalar("5"), Scalar("0")}
Props == {"a", "b::int", "$gt", "$contains"}

RECURSIVE ObjectsOfSize(_)
ObjectsOfSize(n) ==
  IF n = 0 THEN {<<>>}
  ELSE UNION {
         {<<Entry(k, c)>> \o rest :
            k \in Props,
            c \in (IF i = 0 THEN Scalars ELSE {Object(o) : o \in ObjectsOfSize(i)}),
            rest \in ObjectsOfSize(n - 1 - i)}
         : i \in 0..(n-1)}

DistinctKeys(kv) == \A i, j \in 1..Len(kv) : i # j => kv[i].k # kv[j].k

RECURSIVE WellFormed(_)
WellFormed(node) ==
  node.t = "scalar" \/
  (DistinctKeys(node.kv) /\ \A i \in 1..Len(node.kv) : WellFormed(node.kv[i].v))

Values ==
  Scalars \cup
  {v \in {Object(o) : o \in UNION {ObjectsOfSize(n) : n \in 0..MaxNodes}} : WellFormed(v)}

IsPlainObject(node) == node.t = "object"
IsOperator(prop) == prop \in {"$gt", "$contains", "$eq"}

(* truthiness of a condition value *)
TruthyValue(node) == node.t = "object" \/ node.s # "0"

RECURSIVE Stringify(_), StringifyEntries(_)
Stringify(node) ==
  IF node.t = "scalar" THEN <<node.s>>
  ELSE <<"{">> \o StringifyEntries(node.kv) \o <<"}">>
StringifyEntries(kv) ==
  IF kv = <<>> THEN <<>>
  ELSE <<"\"", kv[1].k, "\":">> \o Stringify(kv[1].v)
       \o (IF Len(kv) > 1 THEN <<",">> ELSE <<>>) \o StringifyEntries(Tail(kv))

(* the attributes of the model: a JSON column stored in field data_col,    *)
(* and a string column                                                     *)
RawAttributeNames == {"data", "name"}
RawAttributeType(name) == IF name = "data" THEN "JSON" ELSE "STRING"
RawAttributeField(name) == IF name = "data" THEN <<"data_col">> ELSE <<>>

WhereOptions(field, model, type, prefix, json) ==
  [field |-> field, model |-> model, type |-> type, prefix |-> prefix, json |-> json]

NoPrefix == [kind |-> "none", text |-> <<>>]
LiteralPrefix(text) == [kind |-> "literal", text |-> text]
TablePrefix(name) == [kind |-> "table", text |-> name]

WhereOptionsSet ==
  {WhereOptions("none", TRUE, "none", NoPrefix, JsUndefined),
   WhereOptions("none", TRUE, "none", TablePrefix(<<"t">>), JsBool("true")),
   WhereOptions("none", TRUE, "none", LiteralPrefix(<<"x.y">>), JsBool("false")),
   WhereOptions("none", TRUE, "none", NoPrefix, JsBool("false")),
   WhereOptions("JSON", FALSE, "none", NoPrefix, JsUndefined),
   WhereOptions("none", FALSE, "JSON", NoPrefix, JsBool("false")),
   WhereOptions("none", FALSE, "none", NoPrefix, JsUndefined)}

(* keys, as the list of their dot-separated segments *)
WhereKeys == {<<"data">>, <<"data", "a">>, <<"name">>}

KeyString(key) == Join([i \in 1..Len(key) |-> <<key[i]>>], <<".">>)

(* Dottie.set(value, path, tmp) on an empty value *)
RECURSIVE Nest(_, _)
Nest(path, v) ==
  IF path = <<>> THEN v ELSE Object(<<Entry(path[1], Nest(Tail(path), v))>>)

(* field, fieldType, key and value after the field resolution *)
Resolve(key, value, opts) ==
  LET known == opts.model /\ Len(key) = 1 /\ key[1] \in RawAttributeNames
      fieldType0 == IF opts.type # "none" THEN opts.type
                    ELSE IF opts.field # "none" THEN opts.field
                    ELSE IF known THEN RawAttributeType(key[1]) ELSE "none"
      dotted == /\ Len(key) > 1 /\ opts.model
                /\ key[1] \in RawAttributeNames /\ RawAttributeType(key[1]) = "JSON"
  IN IF dotted
     THEN [fieldType |-> "JSON",
           key |-> IF RawAttributeField(key[1]) # <<>>
                   THEN RawAttributeField(key[1]) ELSE <<key[1]>>,
           value |-> Nest(Tail(key), value)]
     ELSE [fieldType |-> fieldType0, key |-> KeyString(key), value |-> value]

OperatorSql(prop) ==
  CASE prop = "$gt" -> " > "
    [] prop = "$eq" -> " = "
    [] prop = "$contains" -> " @> "
    [] OTHER -> " = "

(* the predicate compiler of the abstract generator: one comparison per    *)
(* entry of an operator map, an equality for a scalar                      *)
AbstractWhereItemQuery(keyText, value) ==
  IF value.t = "scalar" THEN keyText \o <<" = ">> \o escape(JsStr(<<value.s>>))
  ELSE Join([i \in 1..Len(value.kv) |->
               keyText \o <<OperatorSql(value.kv[i].k)>> \o Stringify(value.kv[i].v)],
            <<" AND ">>)

(* a bug: the presence of $contains is tested, not its operand *)
JsonFalseBranchAnyContains(prefixedKey, keyText, value) ==
  IF \E i \in 1..Len(value.kv) : value.kv[i].k = "$contains"
  THEN [delegated |-> FALSE,
        sql |-> <<"JSON_CONTAINS(">> \o prefixedKey \o <<", '">>
                \o Stringify((CHOOSE e \in {value.kv[i] : i \in 1..Len(value.kv)} :
                                e.k = "$contains").v)
                \o <<"')">>]
  ELSE [delegated |-> TRUE, sql |-> AbstractWhereItemQuery(quoteIdentifier(keyText), value)]

(* the branch for options.json === false, and what follows it *)
JsonFalseBranch(prefixedKey, keyText, value) ==
  IF \E i \in 1..Len(value.kv) : value.kv[i].k = "$contains" /\ TruthyValue(value.kv[i].v)
  THEN [delegated |-> FALSE,
        sql |-> <<"JSON_CONTAINS(">> \o prefixedKey \o <<", '">>
                \o Stringify((CHOOSE e \in {value.kv[i] : i \in 1..Len(value.kv)} :
                                e.k = "$contains").v)
                \o <<"')">>]
  ELSE [delegated |-> TRUE, sql |-> AbstractWhereItemQuery(quoteIdentifier(keyText), value)]

(* the last path segment without its ::cast *)
CastSplit(segment) == IF segment = "b::int" THEN "b" ELSE segment

(* a recursive call of whereItemQuery made by the traversal *)
LiteralCall(baseKey, where) == [literal |-> TRUE, key |-> baseKey, where |-> where]
JsonFalseCall(key, where) == [literal |-> FALSE, key |-> key, where |-> where]

RECURSIVE traverse(_, _, _), traverseOwn(_, _, _, _, _)
traverse(prefixedKey, item, path) ==
  LET path2 == [path EXCEPT ![Len(path)] = CastSplit(path[Len(path)])]
      baseKey == prefixedKey \o <<"->>'$.">>
                 \o Join([i \in 1..Len(path2) |-> <<path2[i]>>], <<".">>) \o <<"'">>
  IN IF IsPlainObject(item)
     THEN traverseOwn(prefixedKey, item.kv, <<>>, path2, baseKey)
     ELSE <<LiteralCall(baseKey, <<Entry("$eq", item)>>)>>
(* the loop over the own keys of item; where is the one object of the      *)
(* enclosing traverse call                                                 *)
traverseOwn(prefixedKey, kv, where, path, baseKey) ==
  IF kv = <<>> THEN <<>>
  ELSE IF IsOperator(kv[1].k)
       THEN LET where2 == where \o <<Entry(kv[1].k, kv[1].v)>>
            IN <<LiteralCall(baseKey, where2)>>
               \o traverseOwn(prefixedKey, Tail(kv), where2, path, baseKey)
       ELSE traverse(prefixedKey, kv[1].v, path \o <<kv[1].k>>)
            \o traverseOwn(prefixedKey, Tail(kv), where, path, baseKey)

(* the calls made for the top-level keys of value *)
RECURSIVE TopLevelCalls(_, _, _)
TopLevelCalls(prefixedKey, key, kv) ==
  IF kv = <<>> THEN <<>>
  ELSE (IF IsOperator(kv[1].k)
        THEN <<JsonFalseCall(key, <<Entry(kv[1].k, kv[1].v)>>)>>
        ELSE traverse(prefixedKey, kv[1].v, <<kv[1].k>>))
       \o TopLevelCalls(prefixedKey, key, Tail(kv))

(* the fragment a recursive call returns *)
CallFragment(prefixedKey, c) ==
  IF c.literal THEN AbstractWhereItemQuery(c.key, Object(c.where))
  ELSE JsonFalseBranch(prefixedKey, c.key, Object(c.where)).sql

(* A literal prefix is rendered by handleSequelizeMethod as its text.  The *)
(* calls with a literal key and no options have no field type and go to    *)
(* the abstract predicate compiler.                                        *)
whereItemQuery(key0, value0, opts) ==
  LET r == Resolve(key0, value0, opts)
      key == r.key
      value == r.value
      prefix == CASE opts.prefix.kind = "literal" -> opts.prefix.text \o <<".">>
                  [] opts.prefix.kind = "table" -> quoteTable(StrTable(opts.prefix.text)) \o <<".">>
                  [] OTHER -> <<>>
      prefixedKey == prefix \o quoteIdentifier(key)
  IN IF IsPlainObject(value) /\ r.fieldType = "JSON"
     THEN IF opts.json # JsBool("false")
          THEN LET calls == TopLevelCalls(prefixedKey, key, value.kv)
                   items == [i \in 1..Len(calls) |-> CallFragment(prefixedKey, calls[i])]
                   joined == Join(items, <<" AND ">>)
               IN [status |-> "ok", branch |-> "json", calls |-> calls, items |-> items,
                   delegated |-> FALSE,
                   pieces |-> <<Piece("fragment",
                                 IF Len(items) > 1 THEN <<"(">> \o joined \o <<")">> ELSE joined)>>]
          ELSE LET f == JsonFalseBranch(prefixedKey, key, value)
               IN [status |-> "ok", branch |-> "jsonFalse", calls |-> <<>>, items |-> <<>>,
                   delegated |-> f.delegated, pieces |-> <<Piece("fragment", f.sql)>>]
     ELSE [status |-> "ok", branch |-> "abstract", calls |-> <<>>, items |-> <<>>,
           delegated |-> TRUE,
           pieces |-> <<Piece("fragment", AbstractWhereItemQuery(quoteIdentifier(key), value))>>]

WhereItemQuery ==
  /\ call.op = "idle"
  /\ \E key \in WhereKeys, value \in Values, o \in WhereOptionsSet :
       /\ call' = [op |-> "whereItemQuery", key |-> key, value |-> value, opts |-> o]
       /\ result' = whereItemQuery(key, value, o)
       /\ UNCHANGED options

NextWhere ==
  \/ WhereItemQuery
  \/ Return

SpecWhere == InitDDL /\ [][NextWhere]_vars

Sql == Flatten(result.pieces)

(* ---------------------------------------------------------------------- *)
(* Properties                                                              *)
(* ---------------------------------------------------------------------- *)
Pieces == result.pieces

Count(pieces, piece) == Cardinality({i \in 1..Len(pieces) : pieces[i] = piece})

HasPiece(pieces, piece) == \E i \in 1..Len(pieces) : pieces[i] = piece

C1_Both(attr) ==
  Includes(attr.dataType, "PRIMARY KEY") /\ Includes(attr.dataType, "REFERENCES")

(* the column at position i of the attributes: its inline definition has   *)
(* neither marker, its REFERENCES text is in a FOREIGN KEY clause without  *)
(* PRIMARY KEY text, and its name is in the PRIMARY KEY clause, which      *)
(* comes before the FOREIGN KEY clauses                                    *)
C1_ColumnMoved(i) ==
  LET name == Q(call.attributes[i].name)
      fks == {k \in 1..Len(Pieces) : Pieces[k] = Tpl(", FOREIGN KEY (")}
      pks == {k \in 1..Len(Pieces) : Pieces[k] = Tpl(", PRIMARY KEY (")}
  IN /\ result.status = "ok"
     /\ Pieces[4*i] = name
     /\ ~Includes(Pieces[4*i + 2].text, "REFERENCES")
     /\ ~Includes(Pieces[4*i + 2].text, "PRIMARY KEY")
     /\ Cardinality(pks) = 1
     /\ \A j \in pks : \A k \in fks : j < k
     /\ \E j \in pks : \E m \in (j+1)..Len(Pieces) :
          Pieces[m] = name /\ \A k \in fks : m < k
     /\ \E k \in fks :
          /\ Pieces[k + 1] = name
          /\ Includes(Pieces[k + 3].text, "REFERENCES")
          /\ ~Includes(Pieces[k + 3].text, "PRIMARY KEY")

(* C1: in createTableQuery every column whose definition contains both     *)
(* PRIMARY KEY and REFERENCES, in any order and number, has no REFERENCES   *)
(* and no PRIMARY KEY text inline; the references are in a trailing        *)
(* FOREIGN KEY clause, the key is an entry of the trailing PRIMARY KEY      *)
(* clause, and the FOREIGN KEY clauses follow the PRIMARY KEY clause.       *)
C1_ReferencesAndKeyMoved ==
  call.op = "createTableQuery" =>
    \A i \in 1..Len(call.attributes) :
      C1_Both(call.attributes[i]) => C1_ColumnMoved(i)

C2_LargeTextOrBinary(type) ==
  IF type.raw THEN type.sql \in {<<"TEXT">>, <<"BLOB">>} ELSE type.binary = JsBool("true")

(* C2: attributeToSQL emits a DEFAULT clause if and only if the type is    *)
(* not a large-text or binary type (raw string or type object) and the     *)
(* default value is schemable.                                             *)
C2_DefaultIffNotLargeAndSchemable ==
  call.op = "attributeToSQL" =>
    (HasPiece(Pieces, Tpl(" DEFAULT ")) <=>
       (~C2_LargeTextOrBinary(call.attribute.type)
        /\ defaultValueSchemable(call.attribute.defaultValue)))

(* the calls the claim expects: one call per operator key below the top    *)
(* level, holding that operator alone                                      *)
RECURSIVE C3_Expected(_, _, _), C3_ExpectedOwn(_, _, _, _)
C3_Expected(prefixedKey, item, path) ==
  LET path2 == [path EXCEPT ![Len(path)] = CastSplit(path[Len(path)])]
      baseKey == prefixedKey \o <<"->>'$.">>
                 \o Join([i \in 1..Len(path2) |-> <<path2[i]>>], <<".">>) \o <<"'">>
  IN IF IsPlainObject(item)
     THEN C3_ExpectedOwn(prefixedKey, item.kv, path2, baseKey)
     ELSE <<LiteralCall(baseKey, <<Entry("$eq", item)>>)>>
C3_ExpectedOwn(prefixedKey, kv, path, baseKey) ==
  IF kv = <<>> THEN <<>>
  ELSE (IF IsOperator(kv[1].k)
        THEN <<LiteralCall(baseKey, <<Entry(kv[1].k, kv[1].v)>>)>>
        ELSE C3_Expected(prefixedKey, kv[1].v, path \o <<kv[1].k>>))
       \o C3_ExpectedOwn(prefixedKey, Tail(kv), path, baseKey)

RECURSIVE C3_ExpectedTop(_, _, _)
C3_ExpectedTop(prefixedKey, key, kv) ==
  IF kv = <<>> THEN <<>>
  ELSE (IF IsOperator(kv[1].k)
        THEN <<JsonFalseCall(key, <<Entry(kv[1].k, kv[1].v)>>)>>
        ELSE C3_Expected(prefixedKey, kv[1].v, <<kv[1].k>>))
       \o C3_ExpectedTop(prefixedKey, key, Tail(kv))

C3_PrefixedKey ==
  LET r == Resolve(call.key, call.value, call.opts)
  IN (CASE call.opts.prefix.kind = "literal" -> call.opts.prefix.text \o <<".">>
        [] call.opts.prefix.kind = "table" ->
             quoteTable(StrTable(call.opts.prefix.text)) \o <<".">>
        [] OTHER -> <<>>) \o quoteIdentifier(r.key)

(* C3: in the JSON branch every operator key below the top level ends its  *)
(* branch and causes exactly one recursive call, on the path expression of *)
(* the enclosing path, with the map holding only that operator; also for   *)
(* sibling operator keys.                                                  *)
C3_OneCallPerOperator ==
  (call.op = "whereItemQuery" /\ result.branch = "json") =>
    LET r == Resolve(call.key, call.value, call.opts)
    IN result.calls = C3_ExpectedTop(C3_PrefixedKey, r.key, r.value.kv)

(* C4: every identifier, table name and literal value in a generated       *)
(* statement has passed through quoteIdentifier, quoteTable or escape.     *)
C4_AllNamesEscaped ==
  \A i \in 1..Len(Pieces) :
    Pieces[i].via \in {"raw", "wrapSingleQuote", "quoteIdentifiers",
                       "quoteIdentifier", "quoteTable", "escape"}
      => Pieces[i].via \in {"quoteIdentifier", "quoteTable", "escape"}

C5_Limit == IF call.before.limit.t = "undefined" THEN JsNum("1") ELSE call.before.limit

(* C5: deleteQuery without truncate: the limit defaults to 1 when unset,   *)
(* LIMIT is appended iff the limit is truthy, WHERE is present iff the     *)
(* compiled condition is not empty, the statement is DELETE FROM t         *)
(* [WHERE cond] [LIMIT n], and the same call on the same options object    *)
(* yields the same statement again.                                        *)
C5_DeleteForm ==
  (call.op = "deleteQuery" /\ call.before.truncate # JsBool("true")) =>
    /\ Sql = <<"DELETE FROM ">> \o quoteTable(call.table)
             \o (IF getWhereConditions(call.where) # <<>>
                 THEN <<" WHERE ">> \o getWhereConditions(call.where) ELSE <<>>)
             \o (IF Truthy(C5_Limit) THEN <<" LIMIT ">> \o escape(C5_Limit) ELSE <<>>)
    /\ (call.passed => options.limit = C5_Limit)
    /\ (call.again => Pieces = call.prev)

C5_Witness ==
  /\ call.op = "deleteQuery"
  /\ call.again
  /\ call.table = StrTable(<<"t">>)
  /\ call.where = "null"
  /\ call.before.truncate = JsUndefined
  /\ call.before.limit = JsNum("1")
  /\ Sql = <<"DELETE FROM ", BackTick, "t", BackTick, " LIMIT ", "1">>

(* C6: deleteQuery with truncate === true returns TRUNCATE and the quoted  *)
(* table, whatever where and limit are, without compiling the condition    *)
(* and without changing the options object.                                *)
C6_TruncateOnly ==
  (call.op = "deleteQuery" /\ call.before.truncate = JsBool("true")) =>
    /\ Sql = <<"TRUNCATE ">> \o quoteTable(call.table)
    /\ ~result.whereCompiled
    /\ (call.passed => options = call.before)

C6_Witness ==
  /\ call.op = "deleteQuery"
  /\ call.passed
  /\ call.before.truncate = JsBool("true")
  /\ call.before.limit = JsUndefined
  /\ call.where = "cond"
  /\ Sql = <<"TRUNCATE ", BackTick, "t", BackTick>>

(* C7: upsertQuery forwards onDuplicate = UPDATE and one clause            *)
(* col=VALUES(col) per key of this call's updateValues, comma-joined in    *)
(* key order, also on an options object an earlier call has used.          *)
C7_OnDuplicateOfThisCall ==
  call.op = "upsertQuery" =>
    /\ result.forwarded.onDuplicate =
         JsStr(<<"UPDATE ">>
               \o Join([i \in 1..Len(call.updateValues) |->
                          <<BackTick>> \o call.updateValues[i] \o <<BackTick, "=VALUES(", BackTick>>
                          \o call.updateValues[i] \o <<BackTick, ")">>], <<", ">>))
    /\ Cardinality({i \in 1..Len(result.forwarded.onDuplicate.v) :
                      result.forwarded.onDuplicate.v[i] = "=VALUES("}) = Len(call.updateValues)

C7_Witness ==
  /\ call.op = "upsertQuery"
  /\ call.before.onDuplicate.t = "string"
  /\ Len(call.before.onDuplicate.v) > 1
  /\ Len(call.updateValues) = 2
  /\ call.before.onDuplicate # result.forwarded.onDuplicate

C8_RefsPart(definition) ==
  SubSeq(definition, IndexOf(definition, "REFERENCES"), Len(definition))

C8_ChangeClause(attr) ==
  <<"CHANGE ">> \o quoteIdentifier(attr.name) \o <<" ">> \o quoteIdentifier(attr.name)
  \o <<" ">> \o attr.dataType

C8_ConstraintClause(attr) ==
  <<"ADD CONSTRAINT ">> \o quoteIdentifier(attr.name \o <<"_foreign_idx">>)
  \o <<" FOREIGN KEY (">> \o quoteIdentifier(attr.name) \o <<") ">>
  \o C8_RefsPart(attr.dataType)

(* C8: changeColumnQuery gives every attribute without REFERENCES its own  *)
(* CHANGE col col definition clause and every attribute with REFERENCES    *)
(* its own ADD CONSTRAINT col_foreign_idx FOREIGN KEY (col) refs clause,   *)
(* refs being the definition from its first REFERENCES on; the CHANGE      *)
(* clauses come first, comma-joined, then a space iff both kinds exist,    *)
(* then the ADD CONSTRAINT clauses.                                        *)
C8_OwnClausePerAttribute ==
  call.op = "changeColumnQuery" =>
    LET changes == SelectSeq(call.attributes, IsChange)
        constraints == SelectSeq(call.attributes, IsConstraint)
    IN Sql = <<"ALTER TABLE ">> \o quoteTable(call.table) \o <<" ">>
             \o Join([i \in 1..Len(changes) |-> C8_ChangeClause(changes[i])], <<", ">>)
             \o (IF Len(changes) > 0 /\ Len(constraints) > 0 THEN <<" ">> ELSE <<>>)
             \o Join([i \in 1..Len(constraints) |-> C8_ConstraintClause(constraints[i])], <<", ">>)
             \o <<";">>

(* C9 as claimed: the fragment of attributeToSQL contains at most one of   *)
(* the markers UNIQUE and PRIMARY KEY.                                     *)
C9_AtMostOneMarker ==
  call.op = "attributeToSQL" =>
    ~(HasPiece(Pieces, Tpl(" UNIQUE")) /\ HasPiece(Pieces, Tpl(" PRIMARY KEY")))

(* C9 amended: the fragment of attributeToSQL contains UNIQUE once iff     *)
(* unique === true and PRIMARY KEY once iff primaryKey is truthy, each     *)
(* whatever the other flag is; with both set, both markers are there,      *)
(* UNIQUE first.                                                           *)
C9_MarkersIndependent ==
  call.op = "attributeToSQL" =>
    /\ Count(Pieces, Tpl(" UNIQUE")) = (IF call.attribute.unique = JsBool("true") THEN 1 ELSE 0)
    /\ Count(Pieces, Tpl(" PRIMARY KEY")) = (IF call.attribute.primaryKey THEN 1 ELSE 0)
    /\ \A i, j \in 1..Len(Pieces) :
         (Pieces[i] = Tpl(" UNIQUE") /\ Pieces[j] = Tpl(" PRIMARY KEY")) => i < j

C9_Witness ==
  /\ call.op = "attributeToSQL"
  /\ call.attribute.unique = JsBool("true")
  /\ call.attribute.primaryKey
  /\ HasPiece(Pieces, Tpl(" UNIQUE"))
  /\ HasPiece(Pieces, Tpl(" PRIMARY KEY"))

C10_ContainsOperand(kv) ==
  (CHOOSE e \in {kv[i] : i \in 1..Len(kv)} : e.k = "$contains").v

C10_TruthyContains(kv) ==
  \E i \in 1..Len(kv) : kv[i].k = "$contains" /\ TruthyValue(kv[i].v)

C10_JsonContains(kv) ==
  <<"JSON_CONTAINS(">> \o C3_PrefixedKey \o <<", '">>
  \o Stringify(C10_ContainsOperand(kv)) \o <<"')">>

C10_ResolvedKey == Resolve(call.key, call.value, call.opts).key
C10_ResolvedValue == Resolve(call.key, call.value, call.opts).value

(* C10 as claimed: with json === false, and for an operator key at the     *)
(* top level of a JSON condition, a truthy $contains operand yields        *)
(* JSON_CONTAINS(column, 'operand') and anything else yields no fragment.  *)
C10_OtherOperatorNoFragment ==
  call.op = "whereItemQuery" =>
    /\ result.branch = "jsonFalse" =>
         Sql = (IF C10_TruthyContains(C10_ResolvedValue.kv)
                THEN C10_JsonContains(C10_ResolvedValue.kv) ELSE <<>>)
    /\ result.branch = "json" =>
         \A i \in 1..Len(result.calls) :
           ~result.calls[i].literal =>
             result.items[i] = (IF C10_TruthyContains(result.calls[i].where)
                                THEN C10_JsonContains(result.calls[i].where) ELSE <<>>)

(* C10 amended: with json === false, and for an operator key at the top    *)
(* level of a JSON condition, a truthy $contains operand yields            *)
(* JSON_CONTAINS(column, 'operand'); any other value is handed with the    *)
(* same key to the predicate compiler of the abstract generator, and the   *)
(* fragment that compiler returns is the result.                           *)
C10_OtherOperatorDelegated ==
  call.op = "whereItemQuery" =>
    /\ result.branch = "jsonFalse" =>
         /\ result.delegated = ~C10_TruthyContains(C10_ResolvedValue.kv)
         /\ Sql = (IF C10_TruthyContains(C10_ResolvedValue.kv)
                   THEN C10_JsonContains(C10_ResolvedValue.kv)
                   ELSE AbstractWhereItemQuery(quoteIdentifier(C10_ResolvedKey),
                                               C10_ResolvedValue))
    /\ result.branch = "json" =>
         \A i \in 1..Len(result.calls) :
           ~result.calls[i].literal =>
             result.items[i] = (IF C10_TruthyContains(result.calls[i].where)
                                THEN C10_JsonContains(result.calls[i].where)
                                ELSE AbstractWhereItemQuery(
                                       quoteIdentifier(result.calls[i].key),
                                       Object(result.calls[i].where)))

C10_Witness ==
  /\ call.op = "whereItemQuery"
  /\ result.branch = "jsonFalse"
  /\ result.delegated
  /\ call.value = Object(<<Entry("$contains", Scalar("0")), Entry("$gt", Scalar("5"))>>)
  /\ Sql # <<>>
====
